---- MODULE Spec2Model ----
(***************************************************************************)
(* Session-scoped semantic search engine of the Polyglot Meeting Assistant *)
(* (backend/src/models/search.py) and its session-isolation layer          *)
(* (backend/src/session_manager.py).                                       *)
(*                                                                         *)
(* Texts are sequences of one-character strings.  A vector of the Vector   *)
(* Index is represented by the text it embeds; similarity is the operator  *)
(* Score.  Integers stand for Python ints, scores are percentages.         *)
(***************************************************************************)
EXTENDS Integers, Sequences, FiniteSets, TLC

\* ------------------------------------------------------------------ bounds
MaxEngines  == 2   \* MeetingSearchEngine instances constructed in one run
MaxDocs     == 3   \* vectors one Vector Index may hold before an insert
MaxSessionDocs == 1 \* the same, for the engines the sessions of Spec use
MaxTicks    == 1   \* clock advances
MaxExtra    == 3   \* characters a snippet text has beyond one window
MaxSentences == 3  \* sentences of a transcript drawn for chunking
MaxSessionMeetings == 2   \* meetings listed in one session

\* --------------------------------------------------------- program constants
session_timeout == 3600
SmallTranscript == 2000
target_chunks   == 8
overlap         == 300
MinChunkSize    == 800
snippet_length  == 200    \* _create_snippet(..., snippet_length=200)

\* ------------------------------------------------------------ Python values
None      == "None"        \* a missing string value
DateObj   == "datetime"    \* a date passed as an object, not JSON serialisable
NoEngine  == 0             \* None where an engine is expected
NoOwner   == "nobody"      \* an engine built outside any session lookup

\* a file: absent, present and parseable with its content, or present and
\* unparseable
Missing       == [state |-> "missing", data |-> <<>>]
Corrupt       == [state |-> "corrupt", data |-> <<>>]
Stored(data)  == [state |-> "ok", data |-> data]

\* Python dicts are functions; these are d[k] = v and del d[k]
Put(d, k, v) == [x \in DOMAIN d \cup {k} |-> IF x = k THEN v ELSE d[x]]
Del(d, k)    == [x \in DOMAIN d \ {k} |-> d[x]]

SessionIds == {"s1", "s2"}   \* the ids uuid4 can hand out
Threads    == {"t1", "t2"}   \* the concurrent callers

\* ------------------------------------------------------------------- texts
IsSpace(c) == c = " "

RECURSIVE LStrip(_)
LStrip(t) == IF t = <<>> THEN <<>>
             ELSE IF IsSpace(Head(t)) THEN LStrip(Tail(t)) ELSE t

RECURSIVE RStrip(_)
RStrip(t) == IF t = <<>> THEN <<>>
             ELSE IF IsSpace(t[Len(t)]) THEN RStrip(SubSeq(t, 1, Len(t) - 1)) ELSE t

\* str.strip()
Strip(t) == RStrip(LStrip(t))

\* str(item) of a dict: its repr, never empty
DictRepr == <<"{", "}">>

\* -------------------------------------------------- content extraction (4.1)
\* str.split('. ')
\* the pieces between the occurrences of ". ", which cannot overlap
SplitSentences(t) ==
    LET seps == {p \in 1..(Len(t) - 1) : t[p] = "." /\ t[p + 1] = " "}
        Sep(n) == CHOOSE p \in seps : Cardinality({q \in seps : q < p}) = n - 1
        From(n) == IF n = 1 THEN 1 ELSE Sep(n - 1) + 2
        To(n) == IF n = Cardinality(seps) + 1 THEN Len(t) ELSE Sep(n) - 1
    IN  [n \in 1..(Cardinality(seps) + 1) |-> SubSeq(t, From(n), To(n))]

RECURSIVE LStripDots(_)
LStripDots(t) == IF t # <<>> /\ Head(t) = "." THEN LStripDots(Tail(t)) ELSE t

RECURSIVE RStripDots(_)
RStripDots(t) == IF t # <<>> /\ t[Len(t)] = "."
                 THEN RStripDots(SubSeq(t, 1, Len(t) - 1)) ELSE t

\* str.strip(".")
StripDots(t) == RStripDots(LStripDots(t))

\* ". ".join(parts)
RECURSIVE JoinSentences(_)
JoinSentences(parts) ==
    IF parts = <<>> THEN <<>>
    ELSE IF Len(parts) = 1 THEN parts[1]
    ELSE parts[1] \o <<".", " ">> \o JoinSentences(Tail(parts))

Max(a, b) == IF a >= b THEN a ELSE b
Min(a, b) == IF a <= b THEN a ELSE b

\* the loop of _smart_chunk_text over the sentences still to be read
RECURSIVE SmartChunkLoop(_, _, _, _, _, _)
SmartChunkLoop(sentences, chunks, current_chunk, current_length, chunk_size, ovl) ==
    IF sentences = <<>>
    THEN IF current_chunk # <<>>
         THEN Append(chunks, JoinSentences(current_chunk) \o <<".">>)
         ELSE chunks
    ELSE LET sentence == Head(sentences)
             sentence_length == Len(sentence)
         IN  IF current_length + sentence_length > chunk_size /\ current_chunk # <<>>
             THEN LET prev_chunk == chunks[Len(chunks)]
                      overlap_start == Max(0, Len(prev_chunk) - ovl)
                      withOverlap ==
                          IF chunks # <<>> /\ ovl > 0
                          THEN <<SubSeq(prev_chunk, overlap_start + 1, Len(prev_chunk))>>
                               \o current_chunk
                          ELSE current_chunk
                 IN  SmartChunkLoop(Tail(sentences),
                                    Append(chunks, JoinSentences(withOverlap) \o <<".">>),
                                    <<StripDots(sentence)>>, sentence_length,
                                    chunk_size, ovl)
             ELSE SmartChunkLoop(Tail(sentences), chunks,
                                 Append(current_chunk, StripDots(sentence)),
                                 current_length + sentence_length, chunk_size, ovl)

_smart_chunk_text(text, tgt, ovl) ==
    LET chunk_size == Max(Len(text) \div tgt, MinChunkSize)
        chunks == SmartChunkLoop(SplitSentences(text), <<>>, <<>>, 0, chunk_size, ovl)
    IN  SubSeq(chunks, 1, Min(tgt, Len(chunks)))

\* one (text, content_type) pair
Pair(text, type) == [text |-> text, type |-> type]

TranscriptPairs(m) ==
    IF m.transcript = <<>> THEN <<>>
    ELSE IF Len(m.transcript) <= SmallTranscript
         THEN <<Pair(m.transcript, "transcript")>>
         ELSE LET chunks == _smart_chunk_text(m.transcript, target_chunks, overlap)
              IN  [i \in 1..Len(chunks) |-> Pair(chunks[i], "transcript")]

SummaryPairs(m) == IF m.summary = <<>> THEN <<>> ELSE <<Pair(m.summary, "summary")>>

\* an action item is a dict (with or without 'text') or a plain string
ActionItemText(item) ==
    IF item.isdict THEN (IF item.hastext THEN item.text ELSE DictRepr) ELSE item.text

RECURSIVE ActionItemPairs(_)
ActionItemPairs(items) ==
    IF items = <<>> THEN <<>>
    ELSE LET text == ActionItemText(Head(items))
         IN  (IF Strip(text) # <<>> THEN <<Pair(text, "action_item")>> ELSE <<>>)
             \o ActionItemPairs(Tail(items))

RECURSIVE DecisionPairs(_)
DecisionPairs(decisions) ==
    IF decisions = <<>> THEN <<>>
    ELSE LET decision_text == Strip(Head(decisions))
         IN  (IF decision_text # <<>> THEN <<Pair(decision_text, "decision")>> ELSE <<>>)
             \o DecisionPairs(Tail(decisions))

TimelineText(tl) ==
    Strip(IF tl.isdict THEN tl.timeline \o <<" ", "-", " ">> \o tl.context ELSE tl.text)

RECURSIVE TimelinePairs(_)
TimelinePairs(timelines) ==
    IF timelines = <<>> THEN <<>>
    ELSE LET timeline_text == TimelineText(Head(timelines))
         IN  (IF timeline_text # <<>> THEN <<Pair(timeline_text, "timeline")>> ELSE <<>>)
             \o TimelinePairs(Tail(timelines))

\* the dict {'texts': [...], 'types': [...]}
_extract_searchable_content(m) ==
    LET pairs == TranscriptPairs(m) \o SummaryPairs(m) \o ActionItemPairs(m.action_items)
                 \o DecisionPairs(m.key_decisions) \o TimelinePairs(m.timelines)
    IN  [texts |-> [i \in 1..Len(pairs) |-> pairs[i].text],
         types |-> [i \in 1..Len(pairs) |-> pairs[i].type]]

\* "not searchable_texts" at the head of add_meeting: a dict is falsy only
\* when it has no keys
NotSearchable(searchable_texts) == DOMAIN searchable_texts = {}

\* ------------------------------------------------------------------ inputs
TextA == <<"a">>
TextB == <<"b">>
TextC == <<"a", "b">>
Blank == <<" ">>
IsoDate == "2024-01-15T10:00:00"
EarlyDate == "2024-01-01T00:00:00"
LateDate  == "2024-02-01T00:00:00"
BadDate   == "yesterday"          \* a string datetime.fromisoformat rejects
AwareDate == "2024-01-01T00:00:00Z" \* a date with a UTC offset
NoDate    == ""                   \* date_from / date_to None or empty

MeetingIds == {"m1", "m2", "m3"}

Meeting(has_id, id, date, transcript, summary, action_items, key_decisions, timelines) ==
    [has_id |-> has_id, id |-> id, title |-> "Standup", date |-> date,
     transcript |-> transcript, summary |-> summary, action_items |-> action_items,
     key_decisions |-> key_decisions, timelines |-> timelines,
     participants |-> <<"Alice">>]

DictItem(text) == [isdict |-> TRUE, hastext |-> TRUE, text |-> text]
StrItem(text)  == [isdict |-> FALSE, hastext |-> FALSE, text |-> text]
DictTimeline(timeline, context) ==
    [isdict |-> TRUE, timeline |-> timeline, context |-> context, text |-> <<>>]

\* transcript, summary and one action item
FullMeeting == Meeting(TRUE, "m1", IsoDate, TextA, TextB, <<DictItem(TextC)>>, <<>>, <<>>)
\* a transcript alone
SoloMeeting == Meeting(TRUE, "m1", IsoDate, TextA, <<>>, <<>>, <<>>, <<>>)
\* the same transcript text under another id
TwinMeeting == Meeting(TRUE, "m2", IsoDate, TextA, <<>>, <<>>, <<>>, <<>>)
\* nothing to index
EmptyMeeting == Meeting(TRUE, "m1", IsoDate, <<>>, <<>>, <<>>, <<>>, <<>>)
\* no 'id' key
NoIdMeeting == Meeting(FALSE, None, IsoDate, TextB, <<>>, <<>>, <<>>, <<>>)
\* a blank action item, a padded decision, a timeline entry
ListsMeeting == Meeting(TRUE, "m2", IsoDate, <<>>, <<>>, <<StrItem(Blank)>>,
                        <<Blank \o TextB \o Blank>>, <<DictTimeline(TextA, <<>>)>>)
\* a date that json.dump cannot serialise
ObjDateMeeting == Meeting(TRUE, "m1", DateObj, <<>>, TextB, <<>>, <<>>, <<>>)

\* a transcript and a summary under a second id, a transcript under a third
MixedMeeting == Meeting(TRUE, "m2", IsoDate, TextC, TextB, <<>>, <<>>, <<>>)
ThirdMeeting == Meeting(TRUE, "m3", IsoDate, TextC, <<>>, <<>>, <<>>, <<>>)
\* the meetings compared with one another
SimilarMeetingInputs == {SoloMeeting, MixedMeeting, ThirdMeeting}

MeetingInputs == {FullMeeting, TwinMeeting, EmptyMeeting, NoIdMeeting, ObjDateMeeting}

\* what is uploaded through the engine of a session: every upload gets a
\* fresh uuid4 as its id, so no id is used in two sessions; the two
\* sessions upload the same transcript text
SessionMeetings(session_id) == IF session_id = "s1" THEN {SoloMeeting} ELSE {TwinMeeting}
SessionFaults == {"none"}

\* another transcript under another id
OtherMeeting == Meeting(TRUE, "m2", IsoDate, TextB, <<>>, <<>>, <<>>, <<>>)

\* what add_meeting_to_session is called with
ListedMeetings == {SoloMeeting}

\* what uploaded files are processed into, each under its own uuid4
UploadedMeetings == {SoloMeeting, OtherMeeting}

\* what the concurrent callers of one engine add: well-formed meetings, with
\* nothing failing
ConcMeetings == {SoloMeeting, OtherMeeting}

Queries == {TextA, TextB}
TopKs   == {1, 2}
PlainTopKs == {1, 2, 5}
\* the filters of a search: content_types, min_relevance (in percent),
\* date_from and date_to
Filters(content_types, min_relevance, date_from, date_to) ==
    [content_types |-> content_types,
     min_relevance |-> IF min_relevance < 0 THEN [given |-> FALSE, value |-> 0]
                       ELSE [given |-> TRUE, value |-> min_relevance],
     date_from |-> date_from, date_to |-> date_to]
FilterInputs ==
    {Filters({"summary"}, -1, NoDate, NoDate),
     Filters({"transcript", "action_item"}, -1, NoDate, NoDate),
     Filters({}, 30, NoDate, NoDate),
     Filters({}, 100, NoDate, NoDate),
     Filters({"transcript"}, 30, NoDate, NoDate),
     Filters({}, -1, LateDate, NoDate),
     Filters({}, -1, BadDate, NoDate),
     Filters({}, -1, AwareDate, NoDate),
     Filters({}, 100, NoDate, EarlyDate)}

\* what the sessions search for: the text both their meetings hold
SessionQueries == {TextA}
SessionTopKs   == {2}

\* the transcripts that are chunked: sentences of the given lengths, joined
\* by ". "
Sentence(n) == [i \in 1..n |-> "a"]
Transcript(lengths) == JoinSentences([i \in 1..Len(lengths) |-> Sentence(lengths[i])])
SentenceLengths == {10, 790, 1200, 2100}
\* nine sentences, each longer than an eighth of the whole
NineSentences == Transcript([i \in 1..(target_chunks + 1) |-> 1000])
Transcripts ==
    {Transcript(lengths) :
        lengths \in UNION {[1..n -> SentenceLengths] : n \in 1..MaxSentences}}
    \cup {NineSentences}

\* the texts a snippet is cut from: n characters, a keyword at position kw
\* (none when kw = 0), optionally a blank first and last character, and
\* optionally three dots of its own at the start
SnippetText(n, kw, padded, dotted) ==
    [i \in 1..n |-> IF padded /\ i \in {1, n} THEN " "
                    ELSE IF dotted /\ i <= 3 THEN "."
                    ELSE IF i = kw THEN "b"
                    ELSE "a"]
SnippetLengths == {3} \cup ((snippet_length - 1)..(snippet_length + MaxExtra))
SnippetTexts ==
    {SnippetText(n, kw, padded, dotted) :
        n \in SnippetLengths, kw \in {0, 2, snippet_length + 1, snippet_length + MaxExtra},
        padded \in BOOLEAN, dotted \in BOOLEAN}
SnippetQueries == {<<"b">>, <<"B", " ", "a">>, <<>>}

\* ------------------------------------------------------ Embedding Provider
\* the unit vector of a text, named by the text
Embed(text) == [vec |-> text]

CharsOf(text) == {text[i] : i \in 1..Len(text)}

\* inner product of two unit vectors, in percent
Score(qv, v) ==
    IF qv = v THEN 100
    ELSE (100 * Cardinality(CharsOf(qv.vec) \cap CharsOf(v.vec)))
         \div (Cardinality(CharsOf(qv.vec) \cup CharsOf(v.vec)) + 1)

\* as EmbeddingsRaise, with an empty batch encoded to an empty matrix
EmbeddingsRaiseUnlessEmpty(eng, texts, fault) ==
    ~eng.encoder \/ fault = "encode"

\* generate_embeddings raises when the encoder is missing, when encode or
\* normalize_L2 raises, and on an empty batch: encode([]) gives a 1-D empty
\* array and normalize_L2 reads its second dimension
EmbeddingsRaise(eng, texts, fault) ==
    ~eng.encoder \/ fault = "encode" \/ texts = <<>>

generate_embeddings(texts) == [i \in 1..Len(texts) |-> Embed(texts[i])]

\* ------------------------------------------------------------ persistence
\* as SearchIndexPath, with the session id left out of the path
SearchIndexPathShared(session_id) == <<"data/sessions", "", "search_index">>

\* search_index_path of create_session
SearchIndexPath(session_id) == <<"data/sessions", session_id, "search_index">>

\* the directory session_dir / "search_index" that create_session makes
SessionSearchDir(session_id) == <<"data/sessions", session_id, "search_index">>

\* index_path of an engine built with no index_path argument
DefaultIndexPath == <<"data", "", "search_index">>

Paths == {SearchIndexPath(s) : s \in SessionIds} \cup {SessionSearchDir(s) : s \in SessionIds}
         \cup {DefaultIndexPath}

\* is path p inside the directory of session s
Under(p, s) == p[1] = "data/sessions" /\ p[2] = s

NoFiles == [dir |-> FALSE, faiss |-> Missing, meta |-> Missing]

JsonSerialisable(md) == \A i \in 1..Len(md) : md[i].meeting_date # DateObj
JsonDump(md)   == Stored(md)
JsonLoad(file) == file.data
WriteIndex(index) == Stored(index)
ReadIndex(file)   == file.data

\* what the environment makes fail in one call: nothing, the encoder,
\* index.add, faiss.write_index, or the dump into the opened (hence
\* truncated) metadata.json
Faults == {"none", "encode", "add", "write_index", "write_meta"}

\* faiss.write_index raises: the directory is gone or the write fails
IndexWriteFails(files, fault) == ~files.dir \/ fault = "write_index"

\* faiss.write_index(self.index, index_file)
WriteIndexFile(eng, files) == [files EXCEPT !.faiss = WriteIndex(eng.index)]

\* open(metadata_file, 'w') and json.dump(self.metadata, f)
WriteMetadataFile(eng, files, fault) ==
    IF fault = "write_meta" \/ ~JsonSerialisable(eng.metadata)
    THEN [files EXCEPT !.meta = Corrupt]
    ELSE [files EXCEPT !.meta = JsonDump(eng.metadata)]

\* every exception is caught and logged
_save_index(eng, files, fault) ==
    IF ~eng.has_index THEN files
    ELSE IF IndexWriteFails(files, fault) THEN files
    ELSE WriteMetadataFile(eng, WriteIndexFile(eng, files), fault)

_create_new_index(eng, available) ==
    IF available
    THEN [eng EXCEPT !.has_index = TRUE, !.index = <<>>, !.metadata = <<>>,
                     !.is_trained = FALSE]
    ELSE eng

\* as _load_index, with the index read from faiss.index kept when
\* metadata.json cannot be loaded
LoadIndexKeepingRead(eng, files, available) ==
    IF available /\ files.faiss.state = "ok" /\ files.meta.state # "missing"
    THEN [eng EXCEPT !.has_index = TRUE, !.index = ReadIndex(files.faiss),
                     !.metadata = IF files.meta.state = "ok" THEN JsonLoad(files.meta)
                                  ELSE <<>>,
                     !.is_trained = files.meta.state = "ok"]
    ELSE _create_new_index(eng, available)

_load_index(eng, files, available) ==
    IF files.faiss.state # "missing" /\ files.meta.state # "missing"
       /\ available /\ files.faiss.state = "ok" /\ files.meta.state = "ok"
    THEN [eng EXCEPT !.has_index = TRUE, !.index = ReadIndex(files.faiss),
                     !.metadata = JsonLoad(files.meta), !.is_trained = TRUE]
    ELSE _create_new_index(eng, available)

\* MeetingSearchEngine.__init__ and _initialize_components; available is
\* whether faiss and the sentence transformer could be loaded
NewEngine(index_path, files, available) ==
    LET blank == [index_path |-> index_path, encoder |-> available,
                  has_index |-> FALSE, index |-> <<>>, metadata |-> <<>>,
                  is_trained |-> FALSE]
    IN  _load_index(blank, files, available)

\* --------------------------------------------------------------- add_meeting
\* the Chunk record of the i-th extracted text, appended to a Document Store
\* that holds n records
ChunkRecord(m, searchable_texts, i, n) ==
    [meeting_id |-> m.id, meeting_title |-> m.title, meeting_date |-> m.date,
     content_type |-> searchable_texts.types[i], text |-> searchable_texts.texts[i],
     participants |-> m.participants, index_position |-> n]

\* the loop over the extracted texts; reading meeting_data['id'] raises
\* KeyError in the first pass when the key is absent
RECURSIVE AppendRecords(_, _, _, _)
AppendRecords(md, m, searchable_texts, i) ==
    IF i > Len(searchable_texts.texts) THEN md
    ELSE AppendRecords(Append(md, ChunkRecord(m, searchable_texts, i, Len(md))),
                       m, searchable_texts, i + 1)

RecordsRaise(m, searchable_texts) == ~m.has_id /\ Len(searchable_texts.texts) > 0

\* "self.encoder is None or self.index is None"
Unavailable(eng) == ~eng.encoder \/ ~eng.has_index

\* index.add(embeddings)
IndexAdd(index, embeddings) == index \o embeddings

\* the whole call: the engine and the files after it, and the value returned
add_meeting(eng, files, m, fault) ==
    LET searchable_texts == _extract_searchable_content(m)
        unchanged == [eng |-> eng, files |-> files, result |-> FALSE]
    IN  IF Unavailable(eng) THEN unchanged
        ELSE IF NotSearchable(searchable_texts) THEN unchanged
        ELSE IF EmbeddingsRaise(eng, searchable_texts.texts, fault) THEN unchanged
        ELSE IF fault = "add" THEN unchanged
        ELSE LET embeddings == generate_embeddings(searchable_texts.texts)
                 eng1 == [eng EXCEPT !.index = IndexAdd(@, embeddings)]
             IN  IF RecordsRaise(m, searchable_texts)
                 THEN [eng |-> eng1, files |-> files, result |-> FALSE]
                 ELSE LET eng2 == [eng1 EXCEPT
                                     !.metadata = AppendRecords(@, m, searchable_texts, 1)]
                      IN  [eng |-> eng2, files |-> _save_index(eng2, files, fault),
                           result |-> TRUE]

\* -------------------------------------------------------------------- search
\* the positions 0..n-1 of the index, most similar first, insertion order
\* among equals
RECURSIVE Ranked(_, _, _)
Ranked(index, qv, left) ==
    IF left = {} THEN <<>>
    ELSE LET best == CHOOSE i \in left :
                         \A j \in left :
                             \/ Score(qv, index[i + 1]) > Score(qv, index[j + 1])
                             \/ Score(qv, index[i + 1]) = Score(qv, index[j + 1]) /\ i <= j
         IN  <<best>> \o Ranked(index, qv, left \ {best})

\* index.search(query_embedding, k): k (score, idx) pairs, padded with
\* idx = -1 when the index holds fewer than k vectors
IndexSearch(index, qv, k) ==
    LET ranked == Ranked(index, qv, 0..(Len(index) - 1))
    IN  [j \in 1..k |->
            IF j <= Len(ranked)
            THEN [score |-> Score(qv, index[ranked[j] + 1]), idx |-> ranked[j]]
            ELSE [score |-> -1, idx |-> -1]]

\* self.metadata[idx], a negative idx counting from the end
MetadataAt(md, idx) == IF idx < 0 THEN md[Len(md) + 1 + idx] ELSE md[idx + 1]

\* ------------------------------------------------------------- snippets
Ellipsis == <<".", ".", ".">>

\* str.lower(), on the letters the inputs use
LowerChar(c) == IF c = "A" THEN "a" ELSE IF c = "B" THEN "b" ELSE c
Lower(t) == [i \in 1..Len(t) |-> LowerChar(t[i])]

\* str.split(): the maximal runs of non-space characters
SplitWords(t) ==
    LET starts == {i \in 1..Len(t) : ~IsSpace(t[i]) /\ (i = 1 \/ IsSpace(t[i - 1]))}
        EndOf(i) == CHOOSE j \in i..Len(t) :
                        /\ \A k \in i..j : ~IsSpace(t[k])
                        /\ (j = Len(t) \/ IsSpace(t[j + 1]))
        Nth(n) == CHOOSE i \in starts : Cardinality({x \in starts : x < i}) = n - 1
    IN  [n \in 1..Cardinality(starts) |-> SubSeq(t, Nth(n), EndOf(Nth(n)))]

\* "word in text"
Contains(text, word) ==
    \E i \in 0..(Len(text) - Len(word)) : SubSeq(text, i + 1, i + Len(word)) = word

\* text[from:to]
Slice(text, from, to) == SubSeq(text, from + 1, Min(to, Len(text)))

\* the query words found in the window that starts at i
WindowMatches(text, query_words, i) ==
    Cardinality({k \in 1..Len(query_words) :
                    Contains(Lower(Slice(text, i, i + snippet_length)), query_words[k])})

\* the loop over the windows: the first window with the most matches, 0 when
\* no window matches or the text is shorter than a window
BestPos(text, query) ==
    LET query_words == SplitWords(Lower(query))
        positions == 0..(Len(text) - snippet_length)
        matching == {i \in positions : WindowMatches(text, query_words, i) > 0}
    IN  IF matching = {} THEN 0
        ELSE CHOOSE i \in matching : \A j \in matching :
                 \/ WindowMatches(text, query_words, i) > WindowMatches(text, query_words, j)
                 \/ /\ WindowMatches(text, query_words, i) = WindowMatches(text, query_words, j)
                    /\ i <= j

\* as LeadingEllipsis, with the marker also before a window at position 0
LeadingEllipsisAlways(best_pos) == TRUE

\* "if best_pos > 0"
LeadingEllipsis(best_pos) == best_pos > 0

TrailingEllipsis(text, best_pos) == best_pos + snippet_length < Len(text)

_create_snippet(text, query) ==
    LET best_pos == BestPos(text, query)
        window == Slice(text, best_pos, best_pos + snippet_length)
        led == IF LeadingEllipsis(best_pos) THEN Ellipsis \o window ELSE window
        snippet == IF TrailingEllipsis(text, best_pos) THEN led \o Ellipsis ELSE led
    IN  Strip(snippet)

\* ---------------------------------------------------------------- filters
\* datetime.fromisoformat, as the position of the date in time
DateOrdinal == (EarlyDate :> 1) @@ (AwareDate :> 1) @@ (IsoDate :> 2) @@ (LateDate :> 3)
Parses(date) == date \in DOMAIN DateOrdinal
\* the parsed date carries a UTC offset
Aware(date) == date = AwareDate

\* "meeting_date < filter_date" / "meeting_date > filter_date": comparing an
\* offset-aware with an offset-naive datetime raises TypeError
CompareRaises(meeting_date, filter_date) == Aware(meeting_date) # Aware(filter_date)

\* the date block of _passes_advanced_filters: "exclude" when it returns
\* False, "raise" when an exception leaves it, "pass" otherwise. ValueError
\* (a string fromisoformat rejects) is caught and lets the result through;
\* the TypeError of .replace on a value that is no string, or of a
\* comparison of an aware with a naive date, is not caught
DateBlock(metadata, filters) ==
    IF filters.date_from = NoDate /\ filters.date_to = NoDate THEN "pass"
    ELSE IF metadata.meeting_date = DateObj THEN "raise"
    ELSE IF ~Parses(metadata.meeting_date) THEN "pass"
    ELSE IF filters.date_from # NoDate /\ ~Parses(filters.date_from) THEN "pass"
    ELSE IF /\ filters.date_from # NoDate
            /\ CompareRaises(metadata.meeting_date, filters.date_from)
         THEN "raise"
    ELSE IF /\ filters.date_from # NoDate
            /\ DateOrdinal[metadata.meeting_date] < DateOrdinal[filters.date_from]
         THEN "exclude"
    ELSE IF filters.date_to # NoDate /\ ~Parses(filters.date_to) THEN "pass"
    ELSE IF /\ filters.date_to # NoDate
            /\ CompareRaises(metadata.meeting_date, filters.date_to)
         THEN "raise"
    ELSE IF /\ filters.date_to # NoDate
            /\ DateOrdinal[metadata.meeting_date] > DateOrdinal[filters.date_to]
         THEN "exclude"
    ELSE "pass"

DateFilterRaises(metadata, filters) == DateBlock(metadata, filters) = "raise"

DateInRange(metadata, filters) == DateBlock(metadata, filters) # "exclude"

\* as BelowMinRelevance, with the threshold never applied
BelowMinRelevanceNever(score, min_relevance) == FALSE

\* "min_relevance is not None and score < min_relevance"
BelowMinRelevance(score, min_relevance) ==
    min_relevance.given /\ score < min_relevance.value

\* _passes_advanced_filters raises: the relevance test returns first
AdvancedFiltersRaise(metadata, score, filters) ==
    ~BelowMinRelevance(score, filters.min_relevance) /\ DateFilterRaises(metadata, filters)

\* _passes_advanced_filters when it returns, without a participants filter
_passes_advanced_filters(metadata, score, filters) ==
    /\ ~BelowMinRelevance(score, filters.min_relevance)
    /\ DateInRange(metadata, filters)

\* as ContentTypeExcluded, with no content type ever excluded
ContentTypeExcludedNever(metadata, content_types) == FALSE

\* "content_types and metadata['content_type'] not in content_types"
ContentTypeExcluded(metadata, content_types) ==
    content_types # {} /\ metadata.content_type \notin content_types

SearchResult(metadata, score, query) ==
    [meeting_id |-> metadata.meeting_id, meeting_title |-> metadata.meeting_title,
     meeting_date |-> metadata.meeting_date, content_type |-> metadata.content_type,
     text |-> metadata.text, participants |-> metadata.participants,
     relevance_score |-> score, snippet |-> _create_snippet(metadata.text, query)]

\* the loop over the candidates, stopping at top_k results or at the first
\* exception
RECURSIVE SearchLoop(_, _, _, _, _, _, _)
SearchLoop(md, hits, j, results, top_k, filters, query) ==
    IF j > Len(hits) THEN [raised |-> FALSE, results |-> results]
    ELSE LET hit == hits[j]
         IN  IF hit.idx >= Len(md)
             THEN SearchLoop(md, hits, j + 1, results, top_k, filters, query)
             ELSE LET metadata == MetadataAt(md, hit.idx)
                  IN  IF ContentTypeExcluded(metadata, filters.content_types)
                      THEN SearchLoop(md, hits, j + 1, results, top_k, filters, query)
                      ELSE IF AdvancedFiltersRaise(metadata, hit.score, filters)
                      THEN [raised |-> TRUE, results |-> results]
                      ELSE IF ~_passes_advanced_filters(metadata, hit.score, filters)
                      THEN SearchLoop(md, hits, j + 1, results, top_k, filters, query)
                      ELSE LET found == Append(results,
                                               SearchResult(metadata, hit.score, query))
                           IN  IF Len(found) >= top_k
                               THEN [raised |-> FALSE, results |-> found]
                               ELSE SearchLoop(md, hits, j + 1, found, top_k, filters,
                                               query)

\* content_types None or empty, min_relevance None, no dates
NoFilters == [content_types |-> {}, min_relevance |-> [given |-> FALSE, value |-> 0],
              date_from |-> NoDate, date_to |-> NoDate]

\* as CandidateCount, with every stored chunk a candidate
CandidateCountAll(top_k, md) == Len(md)

\* "min(top_k * 2, len(self.metadata))"
CandidateCount(top_k, md) == Min(top_k * 2, Len(md))

\* the body of the try block: what it returns, or that it raised
SearchTry(eng, query, top_k, filters, fault) ==
    IF Unavailable(eng) THEN [raised |-> FALSE, results |-> <<>>]
    ELSE IF eng.metadata = <<>> THEN [raised |-> FALSE, results |-> <<>>]
    ELSE IF EmbeddingsRaise(eng, <<query>>, fault) THEN [raised |-> TRUE, results |-> <<>>]
    ELSE LET hits == IndexSearch(eng.index, Embed(query),
                                 CandidateCount(top_k, eng.metadata))
         IN  SearchLoop(eng.metadata, hits, 1, <<>>, top_k, filters, query)

\* as Handled, with the exception passed on to the caller
HandledNever(out) == out

\* "except Exception as e: ... return []"
Handled(out) == IF out.raised THEN [raised |-> FALSE, results |-> <<>>] ELSE out

\* the whole call: what the caller gets, a list or an exception
SearchOutcome(eng, query, top_k, filters, fault) ==
    Handled(SearchTry(eng, query, top_k, filters, fault))

\* the list search returns
search(eng, query, top_k, filters, fault) ==
    SearchOutcome(eng, query, top_k, filters, fault).results

\* ------------------------------------------------------- similar meetings
\* search_by_meeting_id: the records of one meeting, in insertion order
search_by_meeting_id(eng, meeting_id) ==
    SelectSeq(eng.metadata, LAMBDA metadata : metadata.meeting_id = meeting_id)

\* the text of the first summary or transcript chunk, a transcript cut to
\* its first 500 characters; empty when the meeting has neither
QueryText(meeting_content) ==
    LET usable == {i \in 1..Len(meeting_content) :
                      meeting_content[i].content_type \in {"summary", "transcript"}}
    IN  IF usable = {} THEN <<>>
        ELSE LET first == CHOOSE i \in usable : \A j \in usable : i <= j
                 content == meeting_content[first]
             IN  IF content.content_type = "summary" THEN content.text
                 ELSE Slice(content.text, 0, 500)

\* as IsReferenceMeeting, with no result skipped
IsReferenceMeetingNever(result, meeting_id) == FALSE

\* "if result['meeting_id'] == meeting_id: continue"
IsReferenceMeeting(result, meeting_id) == result.meeting_id = meeting_id

\* the loop that groups the results by meeting: one entry per meeting, in
\* the order the meetings first appear, with the sum and the number of its
\* scores
RECURSIVE MeetingScores(_, _, _)
MeetingScores(results, meeting_id, meeting_scores) ==
    IF results = <<>> THEN meeting_scores
    ELSE LET result == Head(results)
             at == {i \in 1..Len(meeting_scores) :
                       meeting_scores[i].meeting_id = result.meeting_id}
         IN  IF IsReferenceMeeting(result, meeting_id)
             THEN MeetingScores(Tail(results), meeting_id, meeting_scores)
             ELSE IF at = {}
             THEN MeetingScores(Tail(results), meeting_id,
                      Append(meeting_scores,
                             [meeting_id |-> result.meeting_id,
                              meeting_title |-> result.meeting_title,
                              meeting_date |-> result.meeting_date,
                              participants |-> result.participants,
                              score_sum |-> result.relevance_score,
                              score_count |-> 1,
                              matching_content_types |-> {result.content_type}]))
             ELSE LET i == CHOOSE i \in at : TRUE
                  IN  MeetingScores(Tail(results), meeting_id,
                          [meeting_scores EXCEPT
                              ![i].score_sum = @ + result.relevance_score,
                              ![i].score_count = @ + 1,
                              ![i].matching_content_types = @ \cup {result.content_type}])

\* average_similarity of a above that of b
MoreSimilar(a, b) == a.score_sum * b.score_count > b.score_sum * a.score_count

\* as SortBySimilarity, with the entries left in the order of first appearance
SortBySimilarityNone(entries) == entries

\* sort(key=average_similarity, reverse=True): a stable sort
SortBySimilarity(entries) ==
    LET Before(i, j) == \/ MoreSimilar(entries[i], entries[j])
                        \/ ~MoreSimilar(entries[j], entries[i]) /\ i < j
        Rank(i) == Cardinality({j \in 1..Len(entries) : Before(j, i)}) + 1
    IN  [n \in 1..Len(entries) |-> entries[CHOOSE i \in 1..Len(entries) : Rank(i) = n]]

\* the whole call; nothing in its try block raises, search returning [] on
\* its own errors
get_similar_meetings(eng, meeting_id, top_k, fault) ==
    LET meeting_content == search_by_meeting_id(eng, meeting_id)
        query_text == QueryText(meeting_content)
    IN  IF meeting_content = <<>> THEN <<>>
        ELSE IF query_text = <<>> THEN <<>>
        ELSE LET results == search(eng, query_text, top_k * 3, NoFilters, fault)
                 similar_meetings ==
                     SortBySimilarity(MeetingScores(results, meeting_id, <<>>))
             IN  SubSeq(similar_meetings, 1, Min(top_k, Len(similar_meetings)))

\* --------------------------------------------------------------------- state
VARIABLES
    now,              \* time.time()
    usedIds,          \* session ids uuid4 has handed out
    active_sessions,  \* SessionManager.active_sessions: dict id -> session_data
    search_engines,   \* SessionManager.search_engines: dict id -> engine
    session_dirs,     \* which sessions_dir/<id> directories exist
    session_files,    \* sessions_dir/<id>/session.json, for the ids that have one
    index_files,      \* per index_path: the directory, faiss.index, metadata.json
    engines,          \* the MeetingSearchEngine instances, in construction order
    engineOwner,      \* history: the session whose lookup built the engine, or NoOwner
    deleted,          \* history: sessions delete_session was called on
    threads,          \* the position and locals of each concurrent caller
    ret               \* the last call that returned, and its value

vars == <<now, usedIds, active_sessions, search_engines, session_dirs, session_files,
          index_files, engines, engineOwner, deleted, threads, ret>>

managerVars == <<usedIds, active_sessions, search_engines, session_dirs, session_files>>
engineVars  == <<index_files, engines, engineOwner>>

Idle == [pc |-> "idle"]
Resting == {"idle", "returned"}

\* nothing constructed yet
Fresh ==
    /\ now = 0
    /\ usedIds = {}
    /\ active_sessions = << >>
    /\ search_engines = << >>
    /\ session_dirs = [s \in SessionIds |-> FALSE]
    /\ session_files = << >>
    /\ index_files = [p \in Paths |-> NoFiles]
    /\ engines = <<>>
    /\ engineOwner = <<>>
    /\ deleted = {}
    /\ threads = [t \in Threads |-> Idle]

Init ==
    /\ Fresh
    /\ ret = [op |-> "init"]

EngineIds == 1..Len(engines)
\* no call is in flight
AllIdle == \A t \in Threads : threads[t].pc \in Resting

\* ----------------------------------------------------------- SessionManager
\* as _is_session_expired, with a session idle for exactly the timeout expired
ExpiredAtTimeout(session_data, t) == (t - session_data.last_activity) >= session_timeout

_is_session_expired(session_data, t) == (t - session_data.last_activity) > session_timeout

\* _load_session_data returns a record exactly when session.json exists
Loadable(session_id) == session_id \in DOMAIN session_files
_load_session_data(session_id) == session_files[session_id]

\* _save_session_data: the write fails, silently, when the directory is gone
SavedSessionFiles(files, dirs, session_id, session_data) ==
    IF dirs[session_id] THEN Put(files, session_id, session_data) ELSE files

\* get_session on the given active set: the new active set, whether a
\* session is returned (found) and, when it is, the session
get_session(active, session_id) ==
    IF session_id \notin DOMAIN active
    THEN IF Loadable(session_id)
            /\ ~_is_session_expired(_load_session_data(session_id), now)
         THEN [active |-> Put(active, session_id, _load_session_data(session_id)),
               found |-> TRUE, session |-> _load_session_data(session_id)]
         ELSE [active |-> active, found |-> FALSE]
    ELSE LET touched == [active[session_id] EXCEPT !.last_activity = now]
         IN  [active |-> Put(active, session_id, touched), found |-> TRUE,
              session |-> touched]

\* as Cached, with the cache never consulted
CachedNever(session_id) == FALSE

\* "session_id not in self.search_engines" negated
Cached(session_id) == session_id \in DOMAIN search_engines

\* self.search_engines.get(session_id)
CachedEngine(cache, session_id) ==
    IF session_id \in DOMAIN cache THEN cache[session_id] ELSE NoEngine

\* os.makedirs(index_path, exist_ok=True): the directory and its parents
MakeDirs(files, index_path) == [files EXCEPT ![index_path].dir = TRUE]
MakeSessionDirs(dirs, index_path) ==
    [s \in SessionIds |-> dirs[s] \/ Under(index_path, s)]

CreateSession ==
    /\ AllIdle
    /\ \E session_id \in SessionIds \ usedIds :
          LET session_data == [id |-> session_id, created_at |-> now,
                               last_activity |-> now, meetings |-> <<>>,
                               search_index_path |-> SearchIndexPath(session_id)]
              dirs == [session_dirs EXCEPT ![session_id] = TRUE]
          IN  /\ usedIds' = usedIds \cup {session_id}
              /\ session_dirs' = dirs
              /\ index_files' = MakeDirs(index_files, SessionSearchDir(session_id))
              /\ active_sessions' = Put(active_sessions, session_id, session_data)
              /\ session_files' = SavedSessionFiles(session_files, dirs, session_id,
                                                    session_data)
              /\ ret' = [op |-> "create_session", session |-> session_id]
    /\ UNCHANGED <<now, search_engines, engines, engineOwner, deleted, threads>>

GetSession ==
    /\ AllIdle
    /\ \E session_id \in SessionIds :
          LET got == get_session(active_sessions, session_id)
          IN  /\ active_sessions' = got.active
              /\ ret' = [op |-> "get_session", session |-> session_id,
                         found |-> got.found, at |-> now]
    /\ UNCHANGED <<now, usedIds, search_engines, session_dirs, session_files,
                   index_files, engines, engineOwner, deleted, threads>>

\* get_or_create_search_engine; get_session_search_index_path is the lookup
\* of search_index_path in what get_session returns
GetOrCreateSearchEngine ==
    /\ AllIdle
    /\ \E session_id \in SessionIds, available \in BOOLEAN :
          IF ~Cached(session_id)
          THEN LET got == get_session(active_sessions, session_id)
                   index_path == got.session.search_index_path
               IN  /\ active_sessions' = got.active
                   /\ IF got.found
                      THEN /\ Len(engines) < MaxEngines
                           /\ engines' = Append(engines,
                                  NewEngine(index_path, index_files[index_path], available))
                           /\ engineOwner' = Append(engineOwner, session_id)
                           /\ index_files' = MakeDirs(index_files, index_path)
                           /\ session_dirs' = MakeSessionDirs(session_dirs, index_path)
                           /\ search_engines' =
                                  Put(search_engines, session_id, Len(engines) + 1)
                      ELSE UNCHANGED <<engines, engineOwner, index_files, session_dirs,
                                       search_engines>>
                   /\ ret' = [op |-> "get_or_create_search_engine",
                              session |-> session_id,
                              result |-> CachedEngine(search_engines', session_id)]
          ELSE /\ ret' = [op |-> "get_or_create_search_engine", session |-> session_id,
                          result |-> search_engines[session_id]]
               /\ UNCHANGED <<active_sessions, engines, engineOwner, index_files,
                              session_dirs, search_engines>>
    /\ UNCHANGED <<now, usedIds, session_files, deleted, threads>>

\* the dict add_meeting_to_session appends: meeting_data with the keys
\* session_id and added_at set
StoredMeeting(meeting_data, session_id, t) ==
    meeting_data @@ [session_id |-> session_id, added_at |-> t]

\* add_meeting_to_session on the given active set and session.json files:
\* both after the call, and the value returned
add_meeting_to_session(active, files, dirs, session_id, meeting_data) ==
    LET got == get_session(active, session_id)
    IN  IF ~got.found
        THEN [active |-> got.active, files |-> files, result |-> FALSE]
        ELSE LET session == [got.session EXCEPT
                                !.meetings = Append(@, StoredMeeting(meeting_data,
                                                                     session_id, now))]
             IN  [active |-> Put(got.active, session_id, session),
                  files |-> SavedSessionFiles(files, dirs, session_id, session),
                  result |-> TRUE]

\* the session holds fewer than MaxSessionMeetings meetings
RoomInSession(active, session_id) ==
    session_id \in DOMAIN active
        => Len(active[session_id].meetings) < MaxSessionMeetings

AddMeetingToSession ==
    /\ AllIdle
    /\ \E session_id \in SessionIds, meeting_data \in ListedMeetings :
          LET out == add_meeting_to_session(active_sessions, session_files,
                                            session_dirs, session_id, meeting_data)
          IN  /\ RoomInSession(get_session(active_sessions, session_id).active,
                               session_id)
              /\ active_sessions' = out.active
              /\ session_files' = out.files
              /\ ret' = [op |-> "add_meeting_to_session", session |-> session_id,
                         meeting |-> meeting_data, at |-> now, result |-> out.result]
    /\ UNCHANGED <<now, usedIds, search_engines, session_dirs, index_files, engines,
                   engineOwner, deleted, threads>>

\* shutil.rmtree(session_dir): "ok", "raise" before anything is removed, or
\* "partial": session.json is removed and then an error is raised
RemoveIndexFiles(files, session_id) ==
    [p \in Paths |-> IF Under(p, session_id) THEN NoFiles ELSE files[p]]

RmOutcomes == {"ok", "raise", "partial"}

\* the tail of delete_session: "if session_dir.exists(): shutil.rmtree(...)",
\* and the value delete_session returns
RemoveTree(session_id, rm) ==
    IF session_dirs[session_id]
    THEN [dirs |-> [session_dirs EXCEPT ![session_id] = (rm # "ok")],
          files |-> IF rm = "raise" THEN session_files ELSE Del(session_files, session_id),
          index |-> IF rm = "ok" THEN RemoveIndexFiles(index_files, session_id)
                    ELSE index_files,
          result |-> (rm = "ok")]
    ELSE [dirs |-> session_dirs, files |-> session_files, index |-> index_files,
          result |-> TRUE]

DeleteSession ==
    /\ AllIdle
    /\ \E session_id \in SessionIds, rm \in RmOutcomes :
          LET tree == RemoveTree(session_id, rm)
          IN  /\ session_dirs[session_id] \/ rm = "ok"
              /\ active_sessions' = Del(active_sessions, session_id)
              /\ search_engines' = Del(search_engines, session_id)
              /\ deleted' = deleted \cup {session_id}
              /\ session_dirs' = tree.dirs
              /\ session_files' = tree.files
              /\ index_files' = tree.index
              /\ ret' = [op |-> "delete_session", session |-> session_id,
                         result |-> tree.result]
    /\ UNCHANGED <<now, usedIds, engines, engineOwner, threads>>

\* the clock moves by exactly one timeout, or just past it
Tick ==
    /\ AllIdle
    /\ \E step \in {session_timeout, session_timeout + 1} :
          /\ now + step <= MaxTicks * (session_timeout + 1)
          /\ now' = now + step
    /\ UNCHANGED <<managerVars, engineVars, deleted, threads, ret>>

\* clear_all_sessions: both dicts are cleared, then sessions_dir is removed
\* and made again; rmtree ends "ok", raises before anything is removed, or
\* raises after the session.json files are removed ("partial")
ClearAllSessions ==
    /\ AllIdle
    /\ \E rm \in RmOutcomes :
          /\ active_sessions' = << >>
          /\ search_engines' = << >>
          /\ deleted' = deleted \cup usedIds
          /\ session_dirs' = IF rm = "ok" THEN [s \in SessionIds |-> FALSE]
                             ELSE session_dirs
          /\ session_files' = IF rm = "raise" THEN session_files ELSE << >>
          /\ index_files' =
                 IF rm = "ok"
                 THEN [p \in Paths |-> IF p[1] = "data/sessions" THEN NoFiles
                                       ELSE index_files[p]]
                 ELSE index_files
          /\ ret' = [op |-> "clear_all_sessions", result |-> (rm = "ok")]
    /\ UNCHANGED <<now, usedIds, engines, engineOwner, threads>>

\* the test of the sweep on the directory of one session: it is a directory,
\* session.json exists and loads, and the record is expired
Sweepable(session_id) ==
    /\ session_dirs[session_id]
    /\ Loadable(session_id)
    /\ _is_session_expired(_load_session_data(session_id), now)

\* _cleanup_expired_sessions: delete_session on every directory that passes
\* the test, rms[s] being what rmtree does on the tree of s
_cleanup_expired_sessions(rms) ==
    LET swept == {s \in SessionIds : Sweepable(s)}
    IN  [swept |-> swept,
         dirs  |-> [s \in SessionIds |->
                       IF s \in swept THEN RemoveTree(s, rms[s]).dirs[s]
                       ELSE session_dirs[s]],
         files |-> [s \in {x \in DOMAIN session_files :
                              x \in swept => x \in DOMAIN RemoveTree(x, rms[x]).files}
                       |-> session_files[s]],
         index |-> [p \in Paths |->
                       IF \E s \in swept : Under(p, s) /\ rms[s] = "ok"
                       THEN NoFiles ELSE index_files[p]]]

\* SessionManager(): the process starts again on the same sessions_dir, with
\* empty dicts, and runs the sweep
Restart ==
    /\ AllIdle
    /\ \E rms \in [SessionIds -> RmOutcomes] :
          LET sweep == _cleanup_expired_sessions(rms)
          IN  /\ \A s \in SessionIds \ sweep.swept : rms[s] = "ok"
              /\ active_sessions' = << >>
              /\ search_engines' = << >>
              /\ session_dirs' = sweep.dirs
              /\ session_files' = sweep.files
              /\ index_files' = sweep.index
              /\ deleted' = deleted \cup sweep.swept
              /\ ret' = [op |-> "SessionManager", swept |-> sweep.swept, rms |-> rms]
    /\ UNCHANGED <<now, usedIds, engines, engineOwner, threads>>

\* ------------------------------------------------------- MeetingSearchEngine
\* _get_index_size: the size of faiss.index, 0 when the file is absent
_get_index_size(files) ==
    IF files.faiss.state = "missing" THEN 0 ELSE 1 + Len(files.faiss.data)

get_search_statistics(eng, files) ==
    IF eng.metadata = <<>> THEN [total_documents |-> 0, total_meetings |-> 0]
    ELSE LET md == eng.metadata
             types == {md[i].content_type : i \in 1..Len(md)}
         IN  [total_documents |-> Len(md),
              total_meetings |-> Cardinality({md[i].meeting_id : i \in 1..Len(md)}),
              content_type_distribution |->
                  [ty \in types |-> Cardinality({i \in 1..Len(md) : md[i].content_type = ty})],
              index_size_mb |-> _get_index_size(files),
              embedding_dimension |-> 384,
              model_name |-> "all-MiniLM-L6-v2"]

\* search_engine = MeetingSearchEngine() at startup: the process-wide engine
\* on the default index_path, built once
ConstructEngine ==
    /\ AllIdle
    /\ Len(engines) < MaxEngines
    /\ \A e \in EngineIds : engineOwner[e] # NoOwner
    /\ \E available \in BOOLEAN :
          LET index_path == DefaultIndexPath
          IN  /\ engines' = Append(engines,
                                   NewEngine(index_path, index_files[index_path], available))
              /\ engineOwner' = Append(engineOwner, NoOwner)
              /\ index_files' = MakeDirs(index_files, index_path)
              /\ session_dirs' = MakeSessionDirs(session_dirs, index_path)
              /\ ret' = [op |-> "MeetingSearchEngine", result |-> Len(engines) + 1]
    /\ UNCHANGED <<now, usedIds, active_sessions, search_engines, session_files,
                   deleted, threads>>

\* the index stays within limit vectors
Fits(eng, m, limit) ==
    Len(eng.index) + Len(_extract_searchable_content(m).texts) <= limit

\* add_meeting on engine e, by the callers that own it
AddMeetingFrom(meetings, faults, limit) ==
    /\ AllIdle
    /\ \E e \in EngineIds, fault \in faults : \E m \in meetings[engineOwner[e]] :
          LET eng == engines[e]
              out == add_meeting(eng, index_files[eng.index_path], m, fault)
          IN  /\ Fits(eng, m, limit)
              /\ engines' = [engines EXCEPT ![e] = out.eng]
              /\ index_files' = [index_files EXCEPT ![eng.index_path] = out.files]
              /\ ret' = [op |-> "add_meeting", engine |-> e, meeting |-> m,
                         result |-> out.result]
    /\ UNCHANGED <<now, managerVars, engineOwner, deleted, threads>>

Owners == SessionIds \cup {NoOwner}

\* what each owner's callers add: anything, to the process-wide engine
DirectMeetings == [owner \in Owners |-> IF owner = NoOwner THEN MeetingInputs ELSE {}]
AddMeeting == AddMeetingFrom(DirectMeetings, Faults, MaxDocs)

\* add_meeting of the meetings that are compared, with nothing failing
SimilarUploads ==
    [owner \in Owners |-> IF owner = NoOwner THEN SimilarMeetingInputs ELSE {}]
AddSimilarMeeting == AddMeetingFrom(SimilarUploads, {"none"}, MaxDocs + 1)

\* add_meeting on an engine a session lookup handed out
SessionUploads ==
    [owner \in Owners |-> IF owner = NoOwner THEN {} ELSE SessionMeetings(owner)]
SessionAddMeeting == AddMeetingFrom(SessionUploads, SessionFaults, MaxSessionDocs)

\* the ids of the meetings a session lists, in memory or on disk
ListedIds(sessions, session_id) ==
    IF session_id \in DOMAIN sessions
    THEN {sessions[session_id].meetings[i].id :
              i \in 1..Len(sessions[session_id].meetings)}
    ELSE {}

\* uuid4 hands out an id no session lists
FreshMeetingId(id) ==
    \A s \in SessionIds :
        id \notin ListedIds(active_sessions, s) \cup ListedIds(session_files, s)

\* upload_file, from the session lookup on: get_or_create_session (the
\* requested session when get_session finds it, a new one otherwise),
\* get_or_create_search_engine, add_meeting on the engine it hands out, and
\* add_meeting_to_session; meeting_data is what the file was processed into
UploadFile ==
    /\ AllIdle
    /\ \E requested \in SessionIds, fresh \in SessionIds, available \in BOOLEAN,
          meeting_data \in UploadedMeetings :
          LET got == get_session(active_sessions, requested)
              session_id == IF got.found THEN requested ELSE fresh
              index_path == SearchIndexPath(session_id)
              session_data == [id |-> session_id, created_at |-> now,
                               last_activity |-> now, meetings |-> <<>>,
                               search_index_path |-> index_path]
              \* get_or_create_session
              active1 == IF got.found THEN got.active
                         ELSE Put(active_sessions, session_id, session_data)
              dirs1   == IF got.found THEN session_dirs
                         ELSE [session_dirs EXCEPT ![session_id] = TRUE]
              saved1  == IF got.found THEN session_files
                         ELSE SavedSessionFiles(session_files, dirs1, session_id,
                                                session_data)
              index1  == IF got.found THEN index_files
                         ELSE MakeDirs(index_files, SessionSearchDir(session_id))
              \* get_or_create_search_engine
              cached  == Cached(session_id)
              active2 == IF cached THEN active1
                         ELSE get_session(active1, session_id).active
              e       == IF cached THEN search_engines[session_id]
                         ELSE Len(engines) + 1
              eng     == IF cached THEN engines[e]
                         ELSE NewEngine(index_path, index1[index_path], available)
              index2  == IF cached THEN index1 ELSE MakeDirs(index1, index_path)
              dirs2   == IF cached THEN dirs1 ELSE MakeSessionDirs(dirs1, index_path)
              \* session_search.add_meeting(meeting_data)
              added   == add_meeting(eng, index2[eng.index_path], meeting_data, "none")
              \* session_mgr.add_meeting_to_session(session_id, meeting_data)
              listed  == add_meeting_to_session(active2, saved1, dirs2, session_id,
                                                meeting_data)
          IN  /\ got.found \/ fresh \notin usedIds
              /\ cached \/ Len(engines) < MaxEngines
              /\ FreshMeetingId(meeting_data.id)
              /\ Fits(eng, meeting_data, MaxSessionMeetings)
              /\ usedIds' = IF got.found THEN usedIds ELSE usedIds \cup {session_id}
              /\ active_sessions' = listed.active
              /\ session_files' = listed.files
              /\ session_dirs' = dirs2
              /\ search_engines' = Put(search_engines, session_id, e)
              /\ engines' = IF cached THEN [engines EXCEPT ![e] = added.eng]
                            ELSE Append(engines, added.eng)
              /\ engineOwner' = IF cached THEN engineOwner
                                ELSE Append(engineOwner, session_id)
              /\ index_files' = [index2 EXCEPT ![eng.index_path] = added.files]
              /\ ret' = [op |-> "upload_file", session |-> session_id,
                         meeting |-> meeting_data, search_success |-> added.result]
    /\ UNCHANGED <<now, deleted, threads>>

\* search on engine e
SearchFrom(queries, top_ks, filterings, faults) ==
    /\ AllIdle
    /\ \E e \in EngineIds, query \in queries, top_k \in top_ks,
          filters \in filterings, fault \in faults :
          \E body \in {SearchTry(engines[e], query, top_k, filters, fault)} :
             ret' = [op |-> "search", engine |-> e, query |-> query, top_k |-> top_k,
                     filters |-> filters, error |-> body.raised,
                     raised |-> Handled(body).raised, result |-> Handled(body).results]
    /\ UNCHANGED <<now, managerVars, engineVars, deleted, threads>>

\* search without filters
Search == SearchFrom(Queries, TopKs, {NoFilters}, {"none", "encode"})

\* search on an engine a session lookup handed out
SessionSearch == SearchFrom(SessionQueries, SessionTopKs, {NoFilters}, SessionFaults)

\* search with content_types, min_relevance, date_from and date_to
SearchFiltered == SearchFrom(Queries, SessionTopKs, FilterInputs, {"none"})

\* search for one result, with filters
SearchOne == SearchFrom(Queries, {1}, FilterInputs, {"none"})

\* search without filters, for up to five results
SearchPlain == SearchFrom(Queries, PlainTopKs, {NoFilters}, {"none", "encode"})

\* get_similar_meetings on engine e
GetSimilarMeetings ==
    /\ AllIdle
    /\ \E e \in EngineIds, meeting_id \in MeetingIds, top_k \in TopKs,
          fault \in {"none", "encode"} :
          ret' = [op |-> "get_similar_meetings", engine |-> e,
                  meeting_id |-> meeting_id, top_k |-> top_k, fault |-> fault,
                  query_text |-> QueryText(search_by_meeting_id(engines[e], meeting_id)),
                  result |-> get_similar_meetings(engines[e], meeting_id, top_k, fault)]
    /\ UNCHANGED <<now, managerVars, engineVars, deleted, threads>>

\* MeetingSearchEngine(index_path) on the path of engine e: the fresh
\* instance is handed to the caller and used for nothing else
LoadFresh ==
    /\ AllIdle
    /\ \E e \in EngineIds :
          LET index_path == engines[e].index_path
          IN  /\ index_files' = MakeDirs(index_files, index_path)
              /\ session_dirs' = MakeSessionDirs(session_dirs, index_path)
              /\ ret' = [op |-> "load_fresh", engine |-> e,
                         result |-> NewEngine(index_path, index_files[index_path],
                                              engines[e].encoder)]
    /\ UNCHANGED <<now, usedIds, active_sessions, search_engines, session_files,
                   engines, engineOwner, deleted, threads>>

\* the disk loses or garbles faiss.index or metadata.json of engine e
DamageFiles ==
    /\ AllIdle
    /\ \E e \in EngineIds, damaged \in {Missing, Corrupt}, faiss \in BOOLEAN :
          LET index_path == engines[e].index_path
          IN  /\ index_files' = IF faiss
                                THEN [index_files EXCEPT ![index_path].faiss = damaged]
                                ELSE [index_files EXCEPT ![index_path].meta = damaged]
              /\ ret' = [op |-> "damage", engine |-> e]
    /\ UNCHANGED <<now, managerVars, engines, engineOwner, deleted, threads>>

\* _create_snippet(text, query) on the text and the query drawn at the start
CreateSnippet ==
    /\ ret.op = "snippet_input"
    /\ ret' = [op |-> "_create_snippet", text |-> ret.text, query |-> ret.query,
               best_pos |-> BestPos(ret.text, ret.query),
               result |-> _create_snippet(ret.text, ret.query)]
    /\ UNCHANGED <<now, managerVars, engineVars, deleted, threads>>

\* _extract_searchable_content on the meeting drawn at the start
ExtractSearchableContent ==
    /\ ret.op = "meeting_input"
    /\ ret' = [op |-> "_extract_searchable_content", meeting |-> ret.meeting,
               result |-> _extract_searchable_content(ret.meeting)]
    /\ UNCHANGED <<now, managerVars, engineVars, deleted, threads>>

\* ------------------------------------------------------------ specification
\* one process using the Session Manager and the engines it hands out
Next ==
    \/ CreateSession
    \/ GetSession
    \/ GetOrCreateSearchEngine
    \/ DeleteSession
    \/ SessionAddMeeting
    \/ SessionSearch

Spec == Init /\ [][Next]_vars

\* engines on one index_path, used directly
NextEngine ==
    \/ ConstructEngine
    \/ AddMeeting
    \/ Search
    \/ LoadFresh

SpecEngine == Init /\ [][NextEngine]_vars

\* one engine searched with filters
NextSearch ==
    \/ ConstructEngine
    \/ AddMeeting
    \/ SearchFiltered
    \/ SearchPlain

SpecSearch == Init /\ [][NextSearch]_vars

\* one engine asked for similar meetings
NextSimilar ==
    \/ ConstructEngine
    \/ AddMeeting
    \/ AddSimilarMeeting
    \/ GetSimilarMeetings

SpecSimilar == Init /\ [][NextSimilar]_vars

\* _create_snippet as a function of its arguments
InitSnippet ==
    /\ Fresh
    /\ \E text \in SnippetTexts, query \in SnippetQueries :
          ret = [op |-> "snippet_input", text |-> text, query |-> query]

NextSnippet == CreateSnippet

SpecSnippet == InitSnippet /\ [][NextSnippet]_vars

\* _extract_searchable_content as a function of the meeting's transcript
InitChunking ==
    /\ Fresh
    /\ \E transcript \in Transcripts :
          ret = [op |-> "meeting_input",
                 meeting |-> Meeting(TRUE, "m1", IsoDate, transcript, TextB,
                                     <<>>, <<>>, <<>>)]

NextChunking == ExtractSearchableContent

SpecChunking == InitChunking /\ [][NextChunking]_vars

\* engines constructed on paths whose files may be damaged
NextLoad ==
    \/ ConstructEngine
    \/ AddMeeting
    \/ DamageFiles
    \/ LoadFresh

SpecLoad == Init /\ [][NextLoad]_vars

\* one engine searched for its best match, with filters
NextWindow ==
    \/ ConstructEngine
    \/ AddMeeting
    \/ SearchOne

SpecWindow == Init /\ [][NextWindow]_vars

\* ====================================== concurrent callers of one engine
\* Each caller runs one call at a time; a step is a stretch of the call
\* between two accesses to the engine's index, metadata or files.
Returned(op, result) == [pc |-> "returned", op |-> op, result |-> result]

Goto(t, rec) == threads' = [threads EXCEPT ![t] = rec]

\* vectors the adds in flight have still to append to the index of engine e
Pending(e) ==
    LET waiting == {t \in Threads : threads[t].pc = "index_add" /\ threads[t].engine = e}
    IN  Cardinality(waiting)

\* add_meeting up to the embeddings: the availability check, the extraction
\* and generate_embeddings
AddEmbed(t) ==
    /\ threads[t].pc \in Resting
    /\ \E e \in EngineIds, m \in ConcMeetings :
          LET eng == engines[e]
              searchable_texts == _extract_searchable_content(m)
          IN  /\ Len(eng.index) + Pending(e) + Len(searchable_texts.texts) <= MaxDocs
              /\ IF \/ Unavailable(eng)
                    \/ NotSearchable(searchable_texts)
                    \/ EmbeddingsRaise(eng, searchable_texts.texts, "none")
                 THEN Goto(t, Returned("add_meeting", FALSE))
                 ELSE Goto(t, [pc |-> "index_add", engine |-> e, meeting |-> m,
                               searchable_texts |-> searchable_texts])
    /\ UNCHANGED <<now, managerVars, engineVars, deleted, ret>>

\* self.index.add(embeddings)
AddIndexAdd(t) ==
    /\ threads[t].pc = "index_add"
    /\ LET me == threads[t]
       IN  /\ engines' = [engines EXCEPT ![me.engine].index =
                             IndexAdd(@, generate_embeddings(me.searchable_texts.texts))]
           /\ Goto(t, [me EXCEPT !.pc = "build"] @@ [i |-> 1])
    /\ UNCHANGED <<now, managerVars, index_files, engineOwner, deleted, ret>>

\* the dict of one record is built: len(self.metadata) is read here
AddBuildRecord(t) ==
    /\ threads[t].pc = "build"
    /\ LET me == threads[t]
       IN  IF RecordsRaise(me.meeting, me.searchable_texts)
           THEN Goto(t, Returned("add_meeting", FALSE))
           ELSE Goto(t, [pc |-> "append", engine |-> me.engine, meeting |-> me.meeting,
                         searchable_texts |-> me.searchable_texts, i |-> me.i,
                         metadata |-> ChunkRecord(me.meeting, me.searchable_texts, me.i,
                                                  Len(engines[me.engine].metadata))])
    /\ UNCHANGED <<now, managerVars, engineVars, deleted, ret>>

\* self.metadata.append(metadata)
AddAppendRecord(t) ==
    /\ threads[t].pc = "append"
    /\ LET me == threads[t]
           more == me.i < Len(me.searchable_texts.texts)
       IN  /\ engines' = [engines EXCEPT ![me.engine].metadata = Append(@, me.metadata)]
           /\ Goto(t, [pc |-> IF more THEN "build" ELSE "write_index",
                       engine |-> me.engine, meeting |-> me.meeting,
                       searchable_texts |-> me.searchable_texts, i |-> me.i + 1])
    /\ UNCHANGED <<now, managerVars, index_files, engineOwner, deleted, ret>>

\* _save_index, first file
AddWriteIndex(t) ==
    /\ threads[t].pc = "write_index"
    /\ LET me == threads[t]
           eng == engines[me.engine]
           files == index_files[eng.index_path]
       IN  IF ~eng.has_index \/ IndexWriteFails(files, "none")
           THEN /\ Goto(t, Returned("add_meeting", TRUE))
                /\ UNCHANGED index_files
           ELSE /\ index_files' = [index_files EXCEPT
                                     ![eng.index_path] = WriteIndexFile(eng, files)]
                /\ Goto(t, [pc |-> "write_meta", engine |-> me.engine])
    /\ UNCHANGED <<now, managerVars, engines, engineOwner, deleted, ret>>

\* _save_index, second file, and the return of add_meeting
AddWriteMeta(t) ==
    /\ threads[t].pc = "write_meta"
    /\ LET eng == engines[threads[t].engine]
       IN  index_files' = [index_files EXCEPT ![eng.index_path] =
                              WriteMetadataFile(eng, index_files[eng.index_path], "none")]
    /\ Goto(t, Returned("add_meeting", TRUE))
    /\ UNCHANGED <<now, managerVars, engines, engineOwner, deleted, ret>>

\* search up to the query embedding
SearchEmbed(t) ==
    /\ threads[t].pc \in Resting
    /\ \E e \in EngineIds, query \in Queries, top_k \in TopKs :
          IF \/ Unavailable(engines[e])
             \/ engines[e].metadata = <<>>
             \/ EmbeddingsRaise(engines[e], <<query>>, "none")
          THEN Goto(t, Returned("search", <<>>))
          ELSE Goto(t, [pc |-> "search_index", engine |-> e, query |-> query,
                        top_k |-> top_k])
    /\ UNCHANGED <<now, managerVars, engineVars, deleted, ret>>

\* self.index.search(query_embedding, min(top_k * 2, len(self.metadata))):
\* the call sees the index and the length of the metadata as they are now
SearchIndex(t) ==
    /\ threads[t].pc = "search_index"
    /\ LET me == threads[t]
           eng == engines[me.engine]
       IN  Goto(t, [pc |-> "search_loop", engine |-> me.engine, top_k |-> me.top_k,
                    query |-> me.query,
                    hits |-> IndexSearch(eng.index, Embed(me.query),
                                         Min(me.top_k * 2, Len(eng.metadata))),
                    seen |-> [vectors |-> Len(eng.index),
                              records |-> Len(eng.metadata)]])
    /\ UNCHANGED <<now, managerVars, engineVars, deleted, ret>>

\* the loop over the candidates and the return of search
SearchCollect(t) ==
    /\ threads[t].pc = "search_loop"
    /\ LET me == threads[t]
       IN  Goto(t, [pc |-> "returned", op |-> "search", seen |-> me.seen,
                    result |-> SearchLoop(engines[me.engine].metadata, me.hits, 1, <<>>,
                                          me.top_k, NoFilters, me.query).results])
    /\ UNCHANGED <<now, managerVars, engineVars, deleted, ret>>

NextConcEngine ==
    \/ ConstructEngine
    \/ \E t \in Threads :
          \/ AddEmbed(t)
          \/ AddIndexAdd(t)
          \/ AddBuildRecord(t)
          \/ AddAppendRecord(t)
          \/ AddWriteIndex(t)
          \/ AddWriteMeta(t)
          \/ SearchEmbed(t)
          \/ SearchIndex(t)
          \/ SearchCollect(t)

SpecConcEngine == Init /\ [][NextConcEngine]_vars

\* ================================ concurrent callers of the Session Manager
\* the session the concurrent callers name
RacedSessions == {"s1"}

\* get_session, first test: "session_id not in self.active_sessions".
\* `next` is what the caller does with the outcome: hand it to its own
\* caller, or go on inside get_or_create_search_engine
EnterGetSession(t, session_id, next) ==
    Goto(t, [pc |-> IF session_id \in DOMAIN active_sessions THEN "gs_touch" ELSE "gs_load",
             session |-> session_id, next |-> next])

\* get_session returns a session: to the caller, or to
\* get_or_create_search_engine, which reads its search_index_path
LeaveFound(t, session_data) ==
    LET me == threads[t]
    IN  IF me.next = "return"
        THEN Goto(t, [pc |-> "returned", op |-> "get_session", session |-> me.session,
                      result |-> "found"])
        ELSE Goto(t, [pc |-> "goc_construct", session |-> me.session,
                      index_path |-> session_data.search_index_path])

\* get_session ends without a session: "absent" (it returns None) or
\* "raised" (a KeyError, which nothing catches)
LeaveWithout(t, outcome) ==
    LET me == threads[t]
    IN  IF me.next = "return"
        THEN Goto(t, [pc |-> "returned", op |-> "get_session", session |-> me.session,
                      result |-> outcome])
        ELSE IF outcome = "absent"
             THEN Goto(t, [pc |-> "goc_return", session |-> me.session])
             ELSE Goto(t, [pc |-> "returned", op |-> "get_or_create_search_engine",
                           session |-> me.session, result |-> NoEngine,
                           raised |-> TRUE])

GetSessionCall(t) ==
    /\ threads[t].pc \in Resting
    /\ \E session_id \in RacedSessions : EnterGetSession(t, session_id, "return")
    /\ UNCHANGED <<now, managerVars, engineVars, deleted, ret>>

\* the miss: load from disk and, unless expired, promote
GetSessionLoad(t) ==
    /\ threads[t].pc = "gs_load"
    /\ LET session_id == threads[t].session
       IN  IF Loadable(session_id)
              /\ ~_is_session_expired(_load_session_data(session_id), now)
           THEN /\ active_sessions' = Put(active_sessions, session_id,
                                          _load_session_data(session_id))
                /\ LeaveFound(t, _load_session_data(session_id))
           ELSE /\ UNCHANGED active_sessions
                /\ LeaveWithout(t, "absent")
    /\ UNCHANGED <<now, usedIds, search_engines, session_dirs, session_files,
                   engineVars, deleted, ret>>

\* self.active_sessions[session_id]["last_activity"] = time.time()
GetSessionTouch(t) ==
    /\ threads[t].pc = "gs_touch"
    /\ LET session_id == threads[t].session
       IN  IF session_id \in DOMAIN active_sessions
           THEN /\ active_sessions' = [active_sessions EXCEPT
                                         ![session_id].last_activity = now]
                /\ Goto(t, [threads[t] EXCEPT !.pc = "gs_return"])
           ELSE /\ UNCHANGED active_sessions
                /\ LeaveWithout(t, "raised")
    /\ UNCHANGED <<now, usedIds, search_engines, session_dirs, session_files,
                   engineVars, deleted, ret>>

\* return self.active_sessions[session_id]
GetSessionReturn(t) ==
    /\ threads[t].pc = "gs_return"
    /\ IF threads[t].session \in DOMAIN active_sessions
       THEN LeaveFound(t, active_sessions[threads[t].session])
       ELSE LeaveWithout(t, "raised")
    /\ UNCHANGED <<now, managerVars, engineVars, deleted, ret>>

\* get_or_create_search_engine, the test of the cache and, on a miss, the
\* call of get_session through get_session_search_index_path
GetOrCreateCheck(t) ==
    /\ threads[t].pc \in Resting
    /\ \E session_id \in RacedSessions :
          IF Cached(session_id)
          THEN Goto(t, [pc |-> "goc_return", session |-> session_id])
          ELSE EnterGetSession(t, session_id, "goc")
    /\ UNCHANGED <<now, managerVars, engineVars, deleted, ret>>

\* MeetingSearchEngine(index_path=index_path); the session was found, its
\* path is read from the record get_session returned
GetOrCreateConstruct(t) ==
    /\ threads[t].pc = "goc_construct"
    /\ Len(engines) < MaxEngines
    /\ \E available \in BOOLEAN :
          LET session_id == threads[t].session
              index_path == threads[t].index_path
          IN  /\ engines' = Append(engines,
                                   NewEngine(index_path, index_files[index_path], available))
              /\ engineOwner' = Append(engineOwner, session_id)
              /\ index_files' = MakeDirs(index_files, index_path)
              /\ session_dirs' = MakeSessionDirs(session_dirs, index_path)
              /\ Goto(t, [pc |-> "goc_store", session |-> session_id,
                          engine |-> Len(engines) + 1])
    /\ UNCHANGED <<now, usedIds, active_sessions, search_engines, session_files,
                   deleted, ret>>

\* self.search_engines[session_id] = <the new engine>
GetOrCreateStore(t) ==
    /\ threads[t].pc = "goc_store"
    /\ search_engines' = Put(search_engines, threads[t].session, threads[t].engine)
    /\ Goto(t, [pc |-> "goc_return", session |-> threads[t].session])
    /\ UNCHANGED <<now, usedIds, active_sessions, session_dirs, session_files,
                   engineVars, deleted, ret>>

\* return self.search_engines.get(session_id)
GetOrCreateReturn(t) ==
    /\ threads[t].pc = "goc_return"
    /\ Goto(t, [pc |-> "returned", op |-> "get_or_create_search_engine",
                session |-> threads[t].session,
                result |-> CachedEngine(search_engines, threads[t].session),
                raised |-> FALSE])
    /\ UNCHANGED <<now, managerVars, engineVars, deleted, ret>>

\* delete_session: the entry of active_sessions
DeleteActive(t) ==
    /\ threads[t].pc \in Resting
    /\ \E session_id \in RacedSessions :
          /\ active_sessions' = Del(active_sessions, session_id)
          /\ deleted' = deleted \cup {session_id}
          /\ Goto(t, [pc |-> "del_cache", session |-> session_id])
    /\ UNCHANGED <<now, usedIds, search_engines, session_dirs, session_files,
                   engineVars, ret>>

\* delete_session: the entry of search_engines
DeleteCached(t) ==
    /\ threads[t].pc = "del_cache"
    /\ search_engines' = Del(search_engines, threads[t].session)
    /\ Goto(t, [threads[t] EXCEPT !.pc = "del_tree"])
    /\ UNCHANGED <<now, usedIds, active_sessions, session_dirs, session_files,
                   engineVars, deleted, ret>>

\* delete_session: the directory tree, and the return
DeleteTree(t) ==
    /\ threads[t].pc = "del_tree"
    /\ \E rm \in RmOutcomes :
       LET tree == RemoveTree(threads[t].session, rm)
       IN  /\ session_dirs[threads[t].session] \/ rm = "ok"
           /\ session_dirs' = tree.dirs
           /\ session_files' = tree.files
           /\ index_files' = tree.index
           /\ Goto(t, [pc |-> "returned", op |-> "delete_session",
                       session |-> threads[t].session, result |-> tree.result])
    /\ UNCHANGED <<now, usedIds, active_sessions, search_engines, engines, engineOwner,
                   deleted, ret>>

NextConcManager ==
    \/ CreateSession
    \/ \E t \in Threads :
          \/ GetSessionCall(t)
          \/ GetSessionLoad(t)
          \/ GetSessionTouch(t)
          \/ GetSessionReturn(t)
          \/ GetOrCreateCheck(t)
          \/ GetOrCreateConstruct(t)
          \/ GetOrCreateStore(t)
          \/ GetOrCreateReturn(t)
          \/ DeleteActive(t)
          \/ DeleteCached(t)
          \/ DeleteTree(t)

SpecConcManager == Init /\ [][NextConcManager]_vars

\* ------------------------------------------- sessions over time and restarts
NextLifecycle ==
    \/ CreateSession
    \/ GetSession
    \/ DeleteSession
    \/ Tick
    \/ Restart

SpecLifecycle == Init /\ [][NextLifecycle]_vars

\* ------------------------------------ sessions, their engines, and deletion
NextDeletion ==
    \/ CreateSession
    \/ GetOrCreateSearchEngine
    \/ DeleteSession
    \/ ClearAllSessions

SpecDeletion == Init /\ [][NextDeletion]_vars

\* ------------------------------------- sessions and the meetings they list
NextSessionMeetings ==
    \/ CreateSession
    \/ GetOrCreateSearchEngine
    \/ AddMeetingToSession
    \/ Tick
    \/ Restart

SpecSessionMeetings == Init /\ [][NextSessionMeetings]_vars

\* ------------------------------------------------- uploads into sessions
NextUpload ==
    \/ UploadFile
    \/ DeleteSession
    \/ Tick

SpecUpload == Init /\ [][NextUpload]_vars

\* ===================================================================== claims
Aligned(eng) ==
    /\ Len(eng.metadata) = Len(eng.index)
    /\ \A i \in 1..Len(eng.metadata) : eng.metadata[i].index_position = i - 1

FilesOf(e) == index_files[engines[e].index_path]

\* C1: after any sequence of add_meeting calls on an engine, failed calls
\* included, the Document Store has as many records as the Vector Index
\* has vectors and the record at offset i has index_position i.
C1_Alignment == \A e \in EngineIds : Aligned(engines[e])

\* C2: a call of add_meeting that returns false leaves the Vector Index and
\* the Document Store of its engine exactly as they were.
C2_FailedAddChangesNothing ==
    [][(ret'.op = "add_meeting" /\ ~ret'.result)
          => /\ engines'[ret'.engine].index = engines[ret'.engine].index
             /\ engines'[ret'.engine].metadata = engines[ret'.engine].metadata]_vars

IsEmptyMeeting(m) ==
    /\ m.transcript = <<>> /\ m.summary = <<>> /\ m.action_items = <<>>
    /\ m.key_decisions = <<>> /\ m.timelines = <<>>

\* C3: add_meeting on a meeting with an empty transcript, an empty summary
\* and empty action_items, key_decisions and timelines returns false and
\* changes neither the Vector Index, nor the Document Store, nor the files.
C3_EmptyMeetingRejected ==
    [][(ret'.op = "add_meeting" /\ IsEmptyMeeting(ret'.meeting))
          => /\ ~ret'.result
             /\ engines' = engines
             /\ index_files' = index_files]_vars

\* an empty meeting was given to an engine that is available and holds records
C3_Witness ==
    /\ ret.op = "add_meeting"
    /\ IsEmptyMeeting(ret.meeting)
    /\ ~Unavailable(engines[ret.engine])
    /\ engines[ret.engine].metadata # <<>>

\* C4: when add_meeting returns true, faiss.index and metadata.json under
\* the engine's index_path hold the Vector Index and the Document Store as
\* they are after the insert.
C4_TrueMeansPersisted ==
    (ret.op = "add_meeting" /\ ret.result)
        => /\ FilesOf(ret.engine).faiss = WriteIndex(engines[ret.engine].index)
           /\ FilesOf(ret.engine).meta = JsonDump(engines[ret.engine].metadata)

\* C5: a fresh engine built on the index_path of an engine reached by
\* add_meeting calls holds the same Document Store and as many vectors, and
\* answers get_search_statistics and every search as the original does.
C5_IdempotentLoad ==
    ret.op = "load_fresh"
        => LET old == engines[ret.engine]
               new == ret.result
           IN  /\ new.metadata = old.metadata
               /\ Len(new.index) = Len(old.index)
               /\ get_search_statistics(new, FilesOf(ret.engine))
                      = get_search_statistics(old, FilesOf(ret.engine))
               /\ \A q \in Queries, k \in TopKs :
                      search(new, q, k, NoFilters, "none")
                          = search(old, q, k, NoFilters, "none")

UploadedIds(session_id) == {m.id : m \in SessionMeetings(session_id)}

\* C6: a search through the engine of one session never returns a result
\* whose meeting_id was uploaded only through the engine of another session.
C6_SessionIsolation ==
    ret.op = "search"
        => \A i \in 1..Len(ret.result) :
               ret.result[i].meeting_id \in UploadedIds(engineOwner[ret.engine])

\* a search in one session found its own meeting while the engine of another
\* session holds a record with the same text
C6_Witness ==
    /\ ret.op = "search"
    /\ ret.result # <<>>
    /\ \E e \in EngineIds :
          /\ engineOwner[e] # engineOwner[ret.engine]
          /\ \E i \in 1..Len(engines[e].metadata) :
                engines[e].metadata[i].text = ret.result[1].text

EnginesOf(session_id) == {e \in EngineIds : engineOwner[e] = session_id}

C8_ConcurrentAddsAligned ==
    AllIdle
        => \A e \in EngineIds :
               /\ Aligned(engines[e])
               /\ \A i \in 1..Len(engines[e].metadata) :
                      engines[e].index[i] = Embed(engines[e].metadata[i].text)

\* C9: a search that runs while add_meeting runs on the same engine sees the
\* Vector Index and the Document Store with the same number of entries.
C9_ReadersSeeWholeInserts ==
    \A t \in Threads :
        (threads[t].pc = "returned" /\ threads[t].op = "search"
         /\ "seen" \in DOMAIN threads[t])
            => threads[t].seen.vectors = threads[t].seen.records

GotEngine(t, s) ==
    /\ threads[t].pc = "returned"
    /\ threads[t].op = "get_or_create_search_engine"
    /\ threads[t].session = s
    /\ threads[t].result # NoEngine

OneEngineBuilt ==
    \A s \in usedIds \ deleted :
        /\ Cardinality(EnginesOf(s)) <= 1
        /\ \A t1 \in Threads, t2 \in Threads :
               (GotEngine(t1, s) /\ GotEngine(t2, s))
                   => threads[t1].result = threads[t2].result

GetSessionNeverRaises ==
    \A t \in Threads :
        (threads[t].pc = "returned" /\ threads[t].op = "get_session")
            => threads[t].result \in {"found", "absent"}

\* C10: concurrent get_or_create_search_engine calls for one session build
\* one engine and all return it; and get_session racing with delete_session
\* returns the session or reports it absent, never raising.
C10_SynchronizedManager == OneEngineBuilt /\ GetSessionNeverRaises

\* after the step nothing of session s is left: not in memory, not cached,
\* no directory, no session.json, no index files
GoneAfter(s) ==
    /\ s \notin DOMAIN active_sessions'
    /\ s \notin DOMAIN search_engines'
    /\ ~session_dirs'[s]
    /\ s \notin DOMAIN session_files'
    /\ \A p \in Paths : Under(p, s) => index_files'[p] = NoFiles

\* the disk of session s is as it was before the step
DiskKept(s) ==
    /\ session_dirs'[s] = session_dirs[s]
    /\ (s \in DOMAIN session_files') = (s \in DOMAIN session_files)
    /\ s \in DOMAIN session_files => session_files'[s] = session_files[s]
    /\ \A p \in Paths : Under(p, s) => index_files'[p] = index_files[p]

\* the step removed nothing of session s
KeptAfter(s) ==
    /\ (s \in DOMAIN active_sessions') = (s \in DOMAIN active_sessions)
    /\ (s \in DOMAIN search_engines') = (s \in DOMAIN search_engines)
    /\ DiskKept(s)

\* C11: when delete_session(id) returns, true or false, either nothing of
\* the session is left (memory, cached engine, directory) or nothing of it
\* was removed; when clear_all_sessions returns, the same holds of all
\* sessions together.
C11_DeleteAllOrNothing ==
    [][/\ ret'.op = "delete_session"
            => (GoneAfter(ret'.session) \/ KeptAfter(ret'.session))
       /\ ret'.op = "clear_all_sessions"
            => \/ \A s \in SessionIds : GoneAfter(s)
               \/ \A s \in SessionIds : KeptAfter(s)]_vars

\* the session has a directory and a readable record whose last_activity is
\* older than the timeout
RecordedExpired(s) ==
    /\ session_dirs[s]
    /\ s \in DOMAIN session_files
    /\ now - session_files[s].last_activity > session_timeout

\* after the step the disk holds nothing of session s
DiskGoneAfter(s) ==
    /\ ~session_dirs'[s]
    /\ s \notin DOMAIN session_files'
    /\ \A p \in Paths : Under(p, s) => index_files'[p] = NoFiles

\* what the sweep of a starting manager does to each session directory;
\* with unlessRemovalFails, a session whose rmtree raises is exempt
SweepOutcome(unlessRemovalFails) ==
    \A s \in SessionIds :
        IF RecordedExpired(s)
        THEN (unlessRemovalFails => ret'.rms[s] = "ok") => DiskGoneAfter(s)
        ELSE DiskKept(s)

C13_LookupKeepsSessionAlive ==
    [][(Restart /\ ret.op = "get_session" /\ ret.found
          /\ now - ret.at < session_timeout)
          => /\ session_dirs'[ret.session]
             /\ ret.session \in DOMAIN session_files'
             /\ ~_is_session_expired(session_files'[ret.session], now')]_vars

\* C14: search called with a non-empty content_types list never returns a
\* result whose content_type is not in that list
C14_ContentTypeFilter ==
    (ret.op = "search" /\ ret.filters.content_types # {})
        => \A i \in 1..Len(ret.result) :
               ret.result[i].content_type \in ret.filters.content_types

\* a search for summaries alone, on an engine that also holds a transcript
\* chunk, has returned a result
C14_Witness ==
    /\ ret.op = "search"
    /\ ret.filters.content_types = {"summary"}
    /\ Len(ret.result) > 0
    /\ \E i \in 1..Len(engines[ret.engine].metadata) :
           engines[ret.engine].metadata[i].content_type = "transcript"

\* C15: search called with min_relevance = m never returns a result whose
\* relevance_score is below m
C15_RelevanceThreshold ==
    (ret.op = "search" /\ ret.filters.min_relevance.given)
        => \A i \in 1..Len(ret.result) :
               ret.result[i].relevance_score >= ret.filters.min_relevance.value

\* a search with a threshold has returned a result from an engine that
\* also holds a vector scoring below the threshold for the query
C15_Witness ==
    /\ ret.op = "search"
    /\ ret.filters.min_relevance.given
    /\ ret.filters.min_relevance.value > 0
    /\ Len(ret.result) > 0
    /\ \E i \in 1..Len(engines[ret.engine].index) :
           Score(Embed(ret.query), engines[ret.engine].index[i])
               < ret.filters.min_relevance.value

\* C19: search never raises, and on an engine with an empty Document Store,
\* on an engine whose encoder or index is missing, and on an error inside
\* the call (the embedding of the query, the filtering of a candidate) it
\* returns the empty list
C19_SearchNeverRaises ==
    ret.op = "search"
        => /\ ~ret.raised
           /\ (\/ engines[ret.engine].metadata = <<>>
               \/ Unavailable(engines[ret.engine])
               \/ ret.error) => ret.result = <<>>

\* a search with a date filter has met a record whose meeting_date is not a
\* string: the filtering raised
C19_Witness ==
    /\ ret.op = "search"
    /\ ret.error
    /\ ret.filters.date_from # NoDate
    /\ ~Unavailable(engines[ret.engine])
    /\ \E i \in 1..Len(engines[ret.engine].metadata) :
           engines[ret.engine].metadata[i].meeting_date = DateObj

\* result r is the stored chunk rec, text unchanged
IsStoredChunk(r, rec) ==
    /\ r.text = rec.text
    /\ r.meeting_id = rec.meeting_id
    /\ r.content_type = rec.content_type

\* the results are pairwise distinct chunks of the Document Store md
DistinctStoredChunks(results, md) ==
    \E f \in [1..Len(results) -> 1..Len(md)] :
        /\ \A i, j \in 1..Len(results) : i # j => f[i] # f[j]
        /\ \A i \in 1..Len(results) : IsStoredChunk(results[i], md[f[i]])

\* the Document Store after add_meeting(FullMeeting) on a new engine
FullMeetingRecords ==
    AppendRecords(<<>>, FullMeeting, _extract_searchable_content(FullMeeting), 1)

\* the scenario: top_k = 5 on the store of FullMeeting alone returns the
\* transcript chunk and the action_item chunk, the latter with its text
ScenarioHolds(results) ==
    /\ Len(results) >= 2
    /\ \E i \in 1..Len(results) : results[i].content_type = "transcript"
    /\ \E i \in 1..Len(results) :
           results[i].content_type = "action_item" /\ results[i].text = TextC

\* C20: with no filters, a search that meets no error on an available
\* engine holding N chunks returns exactly min(top_k, N) results, each a
\* distinct stored chunk with its text unchanged; on the store of one
\* meeting with a short transcript, a summary and one action item, top_k = 5
\* returns the transcript and the action_item chunks
C20_PlainSearchReturnsTopK ==
    (/\ ret.op = "search"
     /\ ret.filters = NoFilters
     /\ ~ret.error
     /\ ~Unavailable(engines[ret.engine]))
        => /\ Len(ret.result) = Min(ret.top_k, Len(engines[ret.engine].metadata))
           /\ DistinctStoredChunks(ret.result, engines[ret.engine].metadata)
           /\ (ret.top_k = 5 /\ engines[ret.engine].metadata = FullMeetingRecords)
                  => ScenarioHolds(ret.result)

\* C16: the list returned by get_similar_meetings(id, k) contains no entry
\* whose meeting_id equals id
C16_SimilarExcludesReference ==
    ret.op = "get_similar_meetings"
        => \A i \in 1..Len(ret.result) : ret.result[i].meeting_id # ret.meeting_id

\* get_similar_meetings has returned another meeting, from an engine on
\* which the search for the reference meeting's text finds the reference
\* meeting itself
C16_Witness ==
    /\ ret.op = "get_similar_meetings"
    /\ Len(ret.result) > 0
    /\ LET eng == engines[ret.engine]
           query_text == QueryText(search_by_meeting_id(eng, ret.meeting_id))
           results == search(eng, query_text, ret.top_k * 3, NoFilters, "none")
       IN  \E i \in 1..Len(results) : results[i].meeting_id = ret.meeting_id

\* the snippet without the markers _create_snippet has put around it
SnippetBody(snippet, led, trailed) ==
    SubSeq(snippet, IF led THEN 4 ELSE 1,
           IF trailed THEN Len(snippet) - 3 ELSE Len(snippet))

\* C18: the snippet, once the leading and the trailing ellipsis marker are
\* removed, is a contiguous substring of the chunk text of at most
\* snippet_length characters; the leading marker is there exactly when the
\* chosen window starts after position 0 and the trailing marker exactly
\* when the window ends before the end of the text
C18_SnippetContained ==
    ret.op = "_create_snippet"
        => LET led == ret.best_pos > 0
               trailed == ret.best_pos + snippet_length < Len(ret.text)
               body == SnippetBody(ret.result, led, trailed)
           IN  /\ led => /\ Len(ret.result) >= 3
                         /\ SubSeq(ret.result, 1, 3) = Ellipsis
               /\ trailed => /\ Len(ret.result) >= (IF led THEN 6 ELSE 3)
                             /\ SubSeq(ret.result, Len(ret.result) - 2,
                                       Len(ret.result)) = Ellipsis
               /\ Len(body) <= snippet_length
               /\ Contains(ret.text, body)

\* a snippet cut from the middle of a text longer than one window, with
\* both markers
C18_Witness ==
    /\ ret.op = "_create_snippet"
    /\ ret.best_pos > 0
    /\ ret.best_pos + snippet_length < Len(ret.text)
    /\ Len(ret.result) = snippet_length + 6

\* the transcript chunks among the extracted texts, which come first
TranscriptChunks(searchable_texts) ==
    LET n == Cardinality({i \in 1..Len(searchable_texts.types) :
                             searchable_texts.types[i] = "transcript"})
    IN  SubSeq(searchable_texts.texts, 1, n)

\* C17: a transcript of length L <= 2000 is extracted as exactly 1
\* transcript chunk, the transcript verbatim; a transcript of length
\* L > 2000 as at most 8 transcript chunks, each of which except possibly
\* the last is at least 800 characters long
C17_ChunkCountAndSize ==
    (ret.op = "_extract_searchable_content" /\ Len(ret.meeting.transcript) >= 1)
        => LET chunks == TranscriptChunks(ret.result)
           IN  IF Len(ret.meeting.transcript) <= SmallTranscript
               THEN chunks = <<ret.meeting.transcript>>
               ELSE /\ Len(chunks) <= target_chunks
                    /\ \A i \in 1..(Len(chunks) - 1) : Len(chunks[i]) >= MinChunkSize

ChunkTexts(meeting_content, type) ==
    LET chunks == SelectSeq(meeting_content, LAMBDA c : c.content_type = type)
    IN  [i \in 1..Len(chunks) |-> chunks[i].text]

\* C22: get_similar_meetings(id, k) queries with the text of the meeting's
\* summary chunk whenever the meeting has one, with the first 500
\* characters of its transcript chunk only when it has no summary chunk,
\* and returns the empty list when the meeting has neither
C22_SummaryPreferred ==
    ret.op = "get_similar_meetings"
        => LET meeting_content == search_by_meeting_id(engines[ret.engine], ret.meeting_id)
               summaries == ChunkTexts(meeting_content, "summary")
               transcripts == ChunkTexts(meeting_content, "transcript")
           IN  IF summaries # <<>> THEN ret.query_text = summaries[1]
               ELSE IF transcripts # <<>>
                    THEN ret.query_text = SubSeq(transcripts[1], 1,
                                                 Min(500, Len(transcripts[1])))
               ELSE ret.result = <<>>

\* the positions of the hits that belong to meeting mid
HitsOf(hits, mid) == {i \in 1..Len(hits) : hits[i].meeting_id = mid}

\* the sum of the relevance scores of the first n hits that belong to mid
RECURSIVE ScoreSum(_, _, _)
ScoreSum(hits, mid, n) ==
    IF n = 0 THEN 0
    ELSE ScoreSum(hits, mid, n - 1)
         + (IF hits[n].meeting_id = mid THEN hits[n].relevance_score ELSE 0)

\* C23: get_similar_meetings(id, k) returns at most k entries, one per
\* distinct meeting_id other than id among the hits of
\* search(query_text, 3k); the average_similarity of an entry is the mean
\* relevance_score of that meeting's hits, its matching_content_types the
\* set of their content types, and the entries are in non-increasing order
\* of average_similarity
C23_SimilarGroupsHits ==
    ret.op = "get_similar_meetings"
        => LET eng == engines[ret.engine]
               hits == IF ret.query_text = <<>> THEN <<>>
                       ELSE search(eng, ret.query_text, 3 * ret.top_k, NoFilters,
                                   ret.fault)
               others == {hits[i].meeting_id : i \in 1..Len(hits)} \ {ret.meeting_id}
               out == ret.result
           IN  /\ Len(out) = Min(ret.top_k, Cardinality(others))
               /\ \A i \in 1..Len(out) : out[i].meeting_id \in others
               /\ \A i, j \in 1..Len(out) :
                      i # j => out[i].meeting_id # out[j].meeting_id
               /\ \A i \in 1..Len(out) :
                      /\ out[i].score_count = Cardinality(HitsOf(hits, out[i].meeting_id))
                      /\ out[i].score_sum = ScoreSum(hits, out[i].meeting_id, Len(hits))
                      /\ out[i].matching_content_types
                             = {hits[h].content_type : h \in HitsOf(hits, out[i].meeting_id)}
               /\ \A i, j \in 1..Len(out) : i < j => ~MoreSimilar(out[j], out[i])

\* get_similar_meetings has returned two meetings, the first of which
\* appears later among the hits than the second and has two hits of its own
C23_Witness ==
    /\ ret.op = "get_similar_meetings"
    /\ Len(ret.result) = 2
    /\ ret.result[2].score_count = 2
    /\ MoreSimilar(ret.result[1], ret.result[2])
    /\ LET hits == search(engines[ret.engine], ret.query_text, 3 * ret.top_k,
                          NoFilters, ret.fault)
       IN  \E i, j \in 1..Len(hits) :
               /\ i < j
               /\ hits[i].meeting_id = ret.result[2].meeting_id
               /\ hits[j].meeting_id = ret.result[1].meeting_id
               /\ \A h \in 1..(j - 1) : hits[h].meeting_id # ret.result[1].meeting_id

\* the number of vectors of the index that come before position p (from 0)
\* in the order of similarity to the query, insertion order among equals
RankOf(index, qv, p) ==
    Cardinality({o \in 0..(Len(index) - 1) :
                    \/ Score(qv, index[o + 1]) > Score(qv, index[p + 1])
                    \/ Score(qv, index[o + 1]) = Score(qv, index[p + 1]) /\ o < p})

\* the positions of the min(2 * top_k, N) nearest neighbours that have a
\* record in the Document Store
WindowOf(eng, query, top_k) ==
    {p \in 0..(Len(eng.index) - 1) :
        /\ p < Len(eng.metadata)
        /\ RankOf(eng.index, Embed(query), p) < Min(2 * top_k, Len(eng.metadata))}

DateProblem(metadata, filters) ==
    \/ metadata.meeting_date = DateObj
    \/ ~Parses(metadata.meeting_date)
    \/ \E d \in {filters.date_from, filters.date_to} \ {NoDate} :
           ~Parses(d) \/ Aware(d) # Aware(metadata.meeting_date)

WithoutDates(filters) == [filters EXCEPT !.date_from = NoDate, !.date_to = NoDate]

\* C25: when search is given date_from or date_to and the dates of a
\* candidate cannot be parsed or compared, the candidate is kept as if no
\* date filter applied: on an engine where this is so for every record the
\* search returns what it returns without the date filters, and a date
\* problem never empties the query
C25_DateFilterFailsOpen ==
    (/\ ret.op = "search"
     /\ ret.filters # WithoutDates(ret.filters)
     /\ \A i \in 1..Len(engines[ret.engine].metadata) :
            DateProblem(engines[ret.engine].metadata[i], ret.filters))
        => ret.result = search(engines[ret.engine], ret.query, ret.top_k,
                               WithoutDates(ret.filters), "none")

\* chunk begins with the last min(overlap, length) characters of prev
BeginsWithTailOf(chunk, prev) ==
    LET n == Min(overlap, Len(prev))
    IN  /\ Len(chunk) >= n
        /\ SubSeq(chunk, 1, n) = SubSeq(prev, Len(prev) - n + 1, Len(prev))

\* C26: for a transcript longer than 2000 characters, every chunk after the
\* first, the final chunk included, begins with the last min(300, length)
\* characters of the chunk produced immediately before it
C26_ChunksOverlap ==
    (ret.op = "_extract_searchable_content"
     /\ Len(ret.meeting.transcript) > SmallTranscript)
        => LET chunks == TranscriptChunks(ret.result)
           IN  \A i \in 2..Len(chunks) : BeginsWithTailOf(chunks[i], chunks[i - 1])

\* C27: a get_session call that returns a session, by an in-memory hit or
\* by promoting the record from disk, leaves the session's in-memory
\* last_activity at the time of the call; a miss reports absent and adds
\* nothing to the active set
C27_LookupRefreshesActivity ==
    ret.op = "get_session"
        => IF ret.found
           THEN /\ ret.session \in DOMAIN active_sessions
                /\ active_sessions[ret.session].last_activity = ret.at
           ELSE ret.session \notin DOMAIN active_sessions

\* the time session_id has been idle: now minus the last_activity of its
\* in-memory record, or of its record on disk when it is not in memory
IdleTime(session_id) ==
    IF session_id \in DOMAIN active_sessions
    THEN now - active_sessions[session_id].last_activity
    ELSE now - session_files[session_id].last_activity

KnownSession(session_id) ==
    session_id \in DOMAIN active_sessions \/ Loadable(session_id)

\* the meetings of the session before the call, from memory or from disk
MeetingsBefore(session_id) ==
    IF session_id \in DOMAIN active_sessions
    THEN active_sessions[session_id].meetings
    ELSE session_files[session_id].meetings

Listed(session_id, id) == id \in ListedIds(active_sessions, session_id)

\* C29: after upload_file completes for session s, the uploaded meeting is
\* in the meeting list of s if and only if add_meeting on the engine of s
\* succeeded
C29_ListedIffSearchable ==
    ret.op = "upload_file"
        => (Listed(ret.session, ret.meeting.id) <=> ret.search_success)

====
